---- MODULE Spec2Model ----
\* Model of internal/updater/surfshark.go: updateSurfshark,
\* findSurfsharkServersFromZip and getRemainingServers.
\* Strings are sequences of byte values, so that strings.TrimSuffix,
\* strings.HasSuffix and the "<" of sort.Slice are computed as Go computes them.
EXTENDS Integers, Sequences, FiniteSets, TLC

VARIABLES pc, archive, dns, runs, cancelled, clock, stored, lastErr,
          contents, todoFiles, mapping, hosts, warnings, err,
          hostToIPs, todoHosts, servers,
          remHosts, remHostToIPs, remTodo, remainingServers, newWarnings,
          phases, unmapped, matched, results

vars == <<pc, archive, dns, runs, cancelled, clock, stored, lastErr,
          contents, todoFiles, mapping, hosts, warnings, err,
          hostToIPs, todoHosts, servers,
          remHosts, remHostToIPs, remTodo, remainingServers, newWarnings,
          phases, unmapped, matched, results>>

----
\* Bounds of the model.

\* number of entries of the region table that are modelled (the first ones)
TableSize == 2
\* largest number of files in the archive
MaxFiles == 2
\* number of calls of updateSurfshark
MaxRuns == 2

----
\* Strings.

\* ".prod.surfshark.com"
Suffix == <<46, 112, 114, 111, 100, 46, 115, 117, 114, 102, 115, 104, 97, 114, 107, 46, 99, 111, 109>>
\* "_tcp.ovpn"
TCPSuffix == <<95, 116, 99, 112, 46, 111, 118, 112, 110>>

\* strings.HasSuffix(s, suffix)
HasSuffix(s, suffix) ==
    /\ Len(s) >= Len(suffix)
    /\ SubSeq(s, Len(s) - Len(suffix) + 1, Len(s)) = suffix

\* strings.TrimSuffix(s, suffix)
TrimSuffix(s, suffix) ==
    IF HasSuffix(s, suffix) THEN SubSeq(s, 1, Len(s) - Len(suffix)) ELSE s

\* Go's s < t on strings: bytewise lexicographic order
RECURSIVE StrLess(_, _)
StrLess(s, t) ==
    IF t = <<>> THEN FALSE
    ELSE IF s = <<>> THEN TRUE
    ELSE IF s[1] # t[1] THEN s[1] < t[1]
    ELSE StrLess(Tail(s), Tail(t))

Range(s) == {s[i] : i \in 1..Len(s)}

RemoveAt(s, i) == SubSeq(s, 1, i - 1) \o SubSeq(s, i + 1, Len(s))

\* all the orders in which the elements of a finite set can be listed
RECURSIVE Orders(_)
Orders(S) ==
    IF S = {} THEN {<<>>}
    ELSE UNION {{<<x>> \o t : t \in Orders(S \ {x})} : x \in S}

----
\* The region table (the first TableSize entries of the literal).

TableEntries == <<
    [code |-> <<97, 101, 45, 100, 117, 98>>,
     region |-> <<85, 110, 105, 116, 101, 100, 32, 65, 114, 97, 98, 32, 69, 109, 105, 114, 97, 116, 101, 115>>],
    [code |-> <<97, 108, 45, 116, 105, 97>>,
     region |-> <<65, 108, 98, 97, 110, 105, 97>>],
    [code |-> <<97, 116, 45, 118, 105, 101>>,
     region |-> <<65, 117, 115, 116, 114, 105, 97>>],
    [code |-> <<97, 117, 45, 97, 100, 108>>,
     region |-> <<65, 117, 115, 116, 114, 97, 108, 105, 97, 32, 65, 100, 101, 108, 97, 105, 100, 101>>] >>

TableCodes == {TableEntries[i].code : i \in 1..TableSize}

\* surfsharkSubdomainToRegion(): a new map at every call
surfsharkSubdomainToRegion ==
    [c \in TableCodes |->
        TableEntries[CHOOSE i \in 1..TableSize : TableEntries[i].code = c].region]

----
\* The inputs of a run: the archive and the DNS.

\* "ae-dub": a code of the table; "xx-new": a code the table does not have
CodeInTable == <<97, 101, 45, 100, 117, 98>>
CodeNotInTable == <<120, 120, 45, 110, 101, 119>>

\* hosts the files of the archive name, with and without the suffix
ArchiveHosts ==
    {CodeInTable \o Suffix, CodeInTable, CodeNotInTable \o Suffix, CodeNotInTable}

\* "a_udp.ovpn", "b_udp.ovpn", "b_tcp.ovpn"
FileA == <<97, 95, 117, 100, 112, 46, 111, 118, 112, 110>>
FileB == <<98, 95, 117, 100, 112, 46, 111, 118, 112, 110>>
FileBTCP == <<98, 95, 116, 99, 112, 46, 111, 118, 112, 110>>

FileNames == {FileA, FileB, FileBTCP}

\* A file content is modelled by what the parser finds in it: the host of its
\* remote line (none when the file has no usable remote line) and whether
\* the file has something unusual in it.
Content(host, odd) == [host |-> host, odd |-> odd]

\* the contents each file of the archive can have
Contents ==
    [n \in FileNames |->
        IF n = FileA
        THEN {Content(CodeInTable \o Suffix, FALSE),
              Content(CodeNotInTable \o Suffix, TRUE),
              Content(<<>>, FALSE)}
        ELSE IF n = FileB
        THEN {Content(CodeInTable \o Suffix, FALSE),
              Content(CodeInTable, FALSE),
              Content(CodeNotInTable, FALSE)}
        ELSE {Content(CodeInTable \o Suffix, FALSE)}]

Archives ==
    UNION {{f \in [names -> UNION {Contents[n] : n \in FileNames}] :
                \A n \in names : f[n] \in Contents[n]} :
              names \in {n \in SUBSET FileNames : Cardinality(n) <= MaxFiles}}

AllHosts == ArchiveHosts \cup {c \o Suffix : c \in TableCodes}

\* the addresses a live host has, as the DNS lists them (repeated, unsorted)
Addresses(h) == IF HasSuffix(h, Suffix) THEN <<3, 1, 3>> ELSE <<2, 2>>

\* the hosts that may have no address: one the archive can name and one
\* only the table has
DeadCandidates == {TableEntries[1].code \o Suffix, TableEntries[2].code \o Suffix}

DNSAnswers ==
    {[h \in AllHosts |-> IF h \in dead THEN <<>> ELSE Addresses(h)] :
        dead \in SUBSET DeadCandidates}

----
\* Collaborators of the reconciler.

Warning(kind, arg) == [kind |-> kind, arg |-> arg]

\* extractHostFromOVPN(content): (host, warning, err)
extractHostFromOVPN(content) ==
    IF content.host = <<>>
    THEN [host |-> <<>>, warning |-> <<>>, err |-> "remote host not found"]
    ELSE [host |-> content.host,
          warning |-> IF content.odd THEN <<Warning("ovpn", content.host)>> ELSE <<>>,
          err |-> ""]

\* uniqueSortedIPs(IPs): the distinct addresses in ascending order
RECURSIVE SortedSeqOf(_)
SortedSeqOf(S) ==
    IF S = {} THEN <<>>
    ELSE LET m == CHOOSE x \in S : \A y \in S : x <= y
         IN <<m>> \o SortedSeqOf(S \ {m})

uniqueSortedIPs(IPs) == SortedSeqOf(Range(IPs))

\* parallelResolve(ctx, lookupIP, hosts, repetition, timeBetween, failOnErr):
\* the set of the results (hostToIPs, warnings, err) a call can return.
\* A cancelled call returns the context's error and the answers of the
\* hosts that had completed; a strict call fails when some host has no
\* address; a best-effort call maps such a host to an empty list and warns.
parallelResolve(ctxDone, hostList, failOnErr) ==
    LET hs == Range(hostList)
        deadHosts == {h \in hs : dns[h] = <<>>}
        warns(S) == IF S = {} THEN {<<>>}
                    ELSE {[i \in 1..Len(o) |-> Warning("noip", o[i])] : o \in Orders(S)}
    IN  IF ctxDone
        THEN {[hostToIPs |-> [h \in done |-> dns[h]], warnings |-> <<>>,
               err |-> "context canceled"] : done \in SUBSET (hs \ deadHosts)}
        ELSE IF failOnErr
        THEN IF deadHosts # {}
             THEN {[hostToIPs |-> [h \in (hs \ deadHosts) |-> dns[h]],
                    warnings |-> <<>>, err |-> "no IP address found"]}
             ELSE {[hostToIPs |-> [h \in hs |-> dns[h]], warnings |-> <<>>, err |-> ""]}
        ELSE {[hostToIPs |-> [h \in hs |-> dns[h]], warnings |-> w, err |-> ""] :
                w \in warns(deadHosts)}

\* sort.Slice(servers, less by Region): the sort is not stable, so servers of
\* equal region may come out in any order
RECURSIVE SortOutcomes(_)
SortOutcomes(s) ==
    IF s = <<>> THEN {<<>>}
    ELSE UNION {{<<s[i]>> \o t : t \in SortOutcomes(RemoveAt(s, i))} :
                  i \in {k \in 1..Len(s) :
                            \A j \in 1..Len(s) : ~StrLess(s[j].Region, s[k].Region)}}

----
\* State.
\*   pc                 where the call of updateSurfshark is
\*   archive, dns       the archive the provider serves and the DNS
\*   cancelled          ctx.Done() of the running call
\*   clock              u.timeNow().Unix()
\*   stored             u.servers.Surfshark
\*   lastErr            what the last call of updateSurfshark returned
\*   contents .. newWarnings   the locals of findSurfsharkServersFromZip and
\*                      getRemainingServers; todoFiles, todoHosts and remTodo
\*                      are the keys a range loop has not visited yet
\*   phases, unmapped, matched, results   history of the run(s)

NoServers == <<>>
EmptyMap == <<>>

Locals ==
    /\ contents = EmptyMap /\ todoFiles = {} /\ mapping = EmptyMap
    /\ hosts = <<>> /\ warnings = <<>> /\ err = ""
    /\ hostToIPs = EmptyMap /\ todoHosts = {} /\ servers = NoServers
    /\ remHosts = <<>> /\ remHostToIPs = EmptyMap /\ remTodo = {}
    /\ remainingServers = NoServers /\ newWarnings = <<>>
    /\ phases = {} /\ unmapped = {} /\ matched = {}

Init ==
    /\ pc = "idle"
    /\ archive \in Archives
    /\ dns \in DNSAnswers
    /\ runs = 0
    /\ cancelled = FALSE
    /\ clock = 0
    /\ stored = [Timestamp |-> 0, Servers |-> NoServers]
    /\ lastErr = <<>>
    /\ results = {}
    /\ Locals

\* the locals of a new call
NewLocals ==
    /\ contents' = EmptyMap /\ todoFiles' = {} /\ mapping' = EmptyMap
    /\ hosts' = <<>> /\ warnings' = <<>> /\ err' = ""
    /\ hostToIPs' = EmptyMap /\ todoHosts' = {} /\ servers' = NoServers
    /\ remHosts' = <<>> /\ remHostToIPs' = EmptyMap /\ remTodo' = {}
    /\ remainingServers' = NoServers /\ newWarnings' = <<>>
    /\ phases' = {} /\ unmapped' = {} /\ matched' = {}

inputs == <<archive, dns>>
store == <<stored, lastErr, results>>
pass1 == <<hostToIPs, todoHosts>>
pass2 == <<remHosts, remHostToIPs, remTodo, remainingServers, newWarnings>>
history == <<unmapped, matched>>

\* updateSurfshark is called with a context that is not done yet
Call ==
    /\ pc = "idle"
    /\ runs < MaxRuns
    /\ runs' = runs + 1
    /\ clock' = clock + 1
    /\ cancelled' = FALSE
    /\ pc' = "fetch"
    /\ NewLocals
    /\ UNCHANGED <<inputs, store>>

\* the caller cancels the context while findSurfsharkServersFromZip runs
Cancel ==
    /\ pc \notin {"idle", "returned"}
    /\ ~cancelled
    /\ cancelled' = TRUE
    /\ UNCHANGED <<pc, inputs, runs, clock, store, contents, todoFiles, mapping,
                   hosts, warnings, err, pass1, servers, pass2, phases, history>>

\* fetchAndExtractFiles(ctx, client, zipURL): the files of the archive, or
\* an error (always an error when the context is done)
fetchAndExtractFiles(ctxDone) ==
    {[contents |-> EmptyMap, err |-> IF ctxDone THEN "context canceled" ELSE "fetch failed"]}
        \cup (IF ctxDone THEN {} ELSE {[contents |-> archive, err |-> ""]})

\* lines 100-105
Fetch ==
    /\ pc = "fetch"
    /\ \E r \in fetchAndExtractFiles(cancelled) :
         IF r.err # ""
         THEN /\ err' = r.err
              /\ pc' = "returned"
              /\ UNCHANGED <<contents, todoFiles, mapping, phases>>
         ELSE /\ contents' = r.contents
              /\ todoFiles' = DOMAIN r.contents
              /\ mapping' = surfsharkSubdomainToRegion
              /\ pc' = "extract"
              /\ phases' = phases \cup {"extract"}
              /\ err' = ""
    /\ UNCHANGED <<inputs, runs, cancelled, clock, store, hosts, warnings,
                   pass1, servers, pass2, history>>

\* what one iteration of the loop of lines 106-120 appends to hosts
ExtractedHosts(fileName, content) ==
    IF HasSuffix(fileName, TCPSuffix) THEN <<>>
    ELSE IF extractHostFromOVPN(content).err # "" THEN <<>>
    ELSE <<extractHostFromOVPN(content).host>>

\* what one iteration of the loop of lines 106-120 appends to warnings
ExtractedWarnings(fileName, content) ==
    IF HasSuffix(fileName, TCPSuffix) THEN <<>>
    ELSE extractHostFromOVPN(content).warning
           \o (IF extractHostFromOVPN(content).err # ""
               THEN <<Warning("parse", fileName)>> ELSE <<>>)

\* lines 106-120, one file (a map is ranged over in any order)
ExtractFile ==
    /\ pc = "extract"
    /\ \E fileName \in todoFiles :
         /\ todoFiles' = todoFiles \ {fileName}
         /\ hosts' = hosts \o ExtractedHosts(fileName, contents[fileName])
         /\ warnings' = warnings \o ExtractedWarnings(fileName, contents[fileName])
    /\ UNCHANGED <<pc, inputs, runs, cancelled, clock, store, contents, mapping,
                   err, pass1, servers, pass2, phases, history>>

\* lines 122-125: the strict pass over hosts starts
StartResolve1 ==
    /\ pc = "extract"
    /\ todoFiles = {}
    /\ pc' = "resolve1"
    /\ phases' = phases \cup {"resolve1"}
    /\ UNCHANGED <<inputs, runs, cancelled, clock, store, contents, todoFiles,
                   mapping, hosts, warnings, err, pass1, servers, pass2, history>>

\* AfterResolve1 when the error of the strict pass is dropped
AfterResolve1_IgnoresErr(r) ==
    /\ hostToIPs' = r.hostToIPs
    /\ todoHosts' = DOMAIN r.hostToIPs
    /\ pc' = "reconcile"
    /\ phases' = phases \cup {"reconcile"}
    /\ err' = ""

\* what findSurfsharkServersFromZip does with the result r of the strict pass
AfterResolve1(r) ==
    IF r.err # ""
    THEN /\ err' = r.err
         /\ pc' = "returned"
         /\ UNCHANGED <<hostToIPs, todoHosts, phases>>
    ELSE /\ hostToIPs' = r.hostToIPs
         /\ todoHosts' = DOMAIN r.hostToIPs
         /\ pc' = "reconcile"
         /\ phases' = phases \cup {"reconcile"}
         /\ err' = ""

\* lines 125-128: the strict pass returns
FinishResolve1 ==
    /\ pc = "resolve1"
    /\ \E r \in parallelResolve(cancelled, hosts, TRUE) : AfterResolve1(r)
    /\ UNCHANGED <<inputs, runs, cancelled, clock, store, contents, todoFiles,
                   mapping, hosts, warnings, servers, pass2, history>>

Server(region, IPs) == [Region |-> region, IPs |-> uniqueSortedIPs(IPs)]

\* MappingAfterLookup when the matched entry is not deleted
MappingAfterLookup_NoDelete(m, subdomain) == m

\* lines 137-139: the table copy after the lookup of subdomain
MappingAfterLookup(m, subdomain) ==
    IF subdomain \in DOMAIN m
    THEN [c \in DOMAIN m \ {subdomain} |-> m[c]]
    ELSE m

\* FallbackRegion when the suffix is not stripped
FallbackRegion_NoTrim(host) == host

\* line 141: the region name of a host whose code the table does not have
FallbackRegion(host) == TrimSuffix(host, Suffix)

\* lines 130-150, one host of hostToIPs
ReconcileHost(host) ==
    LET IPs == hostToIPs[host]
        subdomain == TrimSuffix(host, Suffix)
        ok == subdomain \in DOMAIN mapping
        region == IF ok THEN mapping[subdomain] ELSE FallbackRegion(host)
    IN  /\ todoHosts' = todoHosts \ {host}
        /\ IF Len(IPs) = 0
           THEN /\ warnings' = Append(warnings, Warning("noip", host))
                /\ UNCHANGED <<mapping, servers, unmapped, matched>>
           ELSE /\ mapping' = MappingAfterLookup(mapping, subdomain)
                /\ warnings' = IF ok THEN warnings
                               ELSE Append(warnings, Warning("unmapped", subdomain))
                /\ servers' = Append(servers, Server(region, IPs))
                /\ unmapped' = IF ok THEN unmapped ELSE unmapped \cup {host}
                /\ matched' = IF ok THEN matched \cup {subdomain} ELSE matched

Reconcile ==
    /\ pc = "reconcile"
    /\ \E host \in todoHosts : ReconcileHost(host)
    /\ UNCHANGED <<pc, inputs, runs, cancelled, clock, store, contents, todoFiles,
                   hosts, err, hostToIPs, pass2, phases>>

\* lines 165-168: the hosts of the best-effort pass, in any order of the map
RemainingHosts(m) ==
    {[i \in 1..Len(o) |-> o[i] \o Suffix] : o \in Orders(DOMAIN m)}

\* lines 153, 165-173: getRemainingServers starts the best-effort pass
StartRemaining ==
    /\ pc = "reconcile"
    /\ todoHosts = {}
    /\ remHosts' \in RemainingHosts(mapping)
    /\ pc' = "resolve2"
    /\ phases' = phases \cup {"resolve2"}
    /\ UNCHANGED <<inputs, runs, cancelled, clock, store, contents, todoFiles,
                   mapping, hosts, warnings, err, pass1, servers, remHostToIPs,
                   remTodo, remainingServers, newWarnings, history>>

\* line 173: the best-effort pass returns; its error is dropped
FinishResolve2 ==
    /\ pc = "resolve2"
    /\ \E r \in parallelResolve(cancelled, remHosts, FALSE) :
         /\ remHostToIPs' = r.hostToIPs
         /\ remTodo' = DOMAIN r.hostToIPs
         /\ newWarnings' = r.warnings
    /\ pc' = "build"
    /\ UNCHANGED <<inputs, runs, cancelled, clock, store, contents, todoFiles,
                   mapping, hosts, warnings, err, pass1, servers, remHosts,
                   remainingServers, phases, history>>

\* lines 176-181: the Server of one host of the best-effort pass
RemainingServer(host) ==
    Server(mapping[TrimSuffix(host, Suffix)], remHostToIPs[host])

\* lines 175-182, one host
BuildRemaining ==
    /\ pc = "build"
    /\ \E host \in remTodo :
         /\ remTodo' = remTodo \ {host}
         /\ remainingServers' = Append(remainingServers, RemainingServer(host))
    /\ UNCHANGED <<pc, inputs, runs, cancelled, clock, store, contents, todoFiles,
                   mapping, hosts, warnings, err, pass1, servers, remHosts,
                   remHostToIPs, newWarnings, phases, history>>

\* SortServers when the list is returned as joined
SortServers_NoSort(s) == {s}

\* lines 157-159: the lists sort.Slice can leave in servers
SortServers(s) == SortOutcomes(s)

\* lines 184, 153-160: getRemainingServers returns, the lists are joined and
\* sorted, findSurfsharkServersFromZip returns
Merge ==
    /\ pc = "build"
    /\ remTodo = {}
    /\ warnings' = warnings \o newWarnings
    /\ servers' \in SortServers(servers \o remainingServers)
    /\ err' = ""
    /\ pc' = "returned"
    /\ phases' = phases \cup {"merged"}
    /\ UNCHANGED <<inputs, runs, cancelled, clock, store, contents, todoFiles,
                   mapping, hosts, pass1, pass2, history>>

\* StoredAfter when the store is written before the error is looked at
StoredAfter_WritesFirst(st, e, now, list) == [Timestamp |-> now, Servers |-> list]

\* lines 22-30: what updateSurfshark keeps of a run
StoredAfter(st, e, now, list) ==
    IF e # "" THEN st ELSE [Timestamp |-> now, Servers |-> list]

\* lines 16-31: findSurfsharkServersFromZip has returned (servers, warnings, err)
Return ==
    /\ pc = "returned"
    /\ lastErr' = IF err # "" THEN <<"cannot update Surfshark servers", err>> ELSE <<>>
    /\ stored' = StoredAfter(stored, err, clock, servers)
    /\ results' = IF err = "" /\ ~cancelled THEN results \cup {servers} ELSE results
    /\ pc' = "idle"
    /\ UNCHANGED <<inputs, runs, cancelled, clock, contents, todoFiles, mapping,
                   hosts, warnings, err, pass1, servers, pass2, phases, history>>

Next ==
    \/ Call
    \/ Cancel
    \/ Fetch
    \/ ExtractFile
    \/ StartResolve1
    \/ FinishResolve1
    \/ Reconcile
    \/ StartRemaining
    \/ FinishResolve2
    \/ BuildRemaining
    \/ Merge
    \/ Return

Spec == Init /\ [][Next]_vars

----
\* Properties.

Count(list, x) == Cardinality({i \in 1..Len(list) : list[i] = x})

IsPermutation(a, b) ==
    /\ Len(a) = Len(b)
    /\ \A x \in Range(a) \cup Range(b) : Count(a, x) = Count(b, x)

SortedByRegion(list) ==
    \A i, j \in 1..Len(list) : i < j => ~StrLess(list[j].Region, list[i].Region)

\* findSurfsharkServersFromZip has returned a list and no error
Succeeded == pc = "returned" /\ err = ""

\* C1: the list of a successful run never has two Servers of the same
\* region name.
C1_AtMostOnePerRegion ==
    Succeeded =>
        \A i, j \in 1..Len(servers) :
            i # j => servers[i].Region # servers[j].Region

\* C2: no Server of a returned list has an empty IP set, whether it comes
\* from the archive pass or from the best-effort pass.
C2_NoEmptyIPSet ==
    Succeeded => \A i \in 1..Len(servers) : servers[i].IPs # <<>>

\* C3: a run during which the context was cancelled returns an error, never
\* a list with a nil error.
C3_CancelledRunFails ==
    (pc = "returned" /\ cancelled) => err # ""

\* the strict pass over hosts cannot succeed
StrictPassFails == cancelled \/ \E h \in Range(hosts) : dns[h] = <<>>

\* C4: a failed strict pass ends the run with its error, no list and no
\* lookup or best-effort pass; the best-effort pass is only ever started
\* after a successful strict pass whose hosts have all been reconciled.
C4_StrictFailureAborts ==
    /\ [][(pc = "resolve1" /\ pc' # "resolve1" /\ StrictPassFails) =>
            /\ pc' = "returned"
            /\ err' \in {"context canceled", "no IP address found"}
            /\ servers' = NoServers
            /\ mapping' = surfsharkSubdomainToRegion
            /\ phases' \cap {"reconcile", "resolve2", "merged"} = {}]_vars
    /\ []((pc = "returned" /\ err # "") =>
            /\ servers = NoServers
            /\ phases \cap {"reconcile", "resolve2", "merged"} = {}
            /\ matched = {} /\ unmapped = {} /\ remHosts = <<>>)
    /\ [](("resolve2" \in phases) =>
            /\ "reconcile" \in phases
            /\ todoHosts = {}
            /\ err = ""
            /\ DOMAIN hostToIPs = Range(hosts)
            /\ \A h \in Range(hosts) : dns[h] # <<>>)

C4_Witness ==
    /\ pc = "returned"
    /\ err = "no IP address found"
    /\ hosts # <<>>
    /\ ~cancelled

\* the code a host maps to: lines 136-137 look up the host without the suffix
CodeOf(h) == TrimSuffix(h, Suffix)

\* every extracted host maps to a code of the table
HostsMapToTable == \A h \in Range(hosts) : CodeOf(h) \in TableCodes

\* no two extracted hosts map to the same code
HostsOfDistinctCodes ==
    \A g, h \in Range(hosts) : CodeOf(g) = CodeOf(h) => g = h

\* every host of both passes has an address and the run was not cancelled
EveryHostResolves ==
    /\ ~cancelled
    /\ \A h \in Range(hosts) \cup Range(remHosts) : dns[h] # <<>>

\* the list has exactly one Server per table code and nothing else
OneServerPerTableCode ==
    /\ Len(servers) = Cardinality(TableCodes)
    /\ \A c \in TableCodes :
          Cardinality({i \in 1..Len(servers) :
              servers[i].Region = surfsharkSubdomainToRegion[c]}) = 1

\* the best-effort pass resolves exactly the hosts of the unmatched codes
Pass2IsComplement ==
    ("resolve2" \in phases) =>
        /\ Range(remHosts) = {c \o Suffix : c \in TableCodes \ matched}
        /\ Len(remHosts) = Cardinality(TableCodes \ matched)

\* C5 as stated: the best-effort pass resolves exactly the hosts of the
\* table codes no resolved archive host matched; when every archive host
\* maps to a table code and every host resolves, the list has exactly one
\* Server per table code.
C5_AsStated ==
    /\ Pass2IsComplement
    /\ (Succeeded /\ HostsMapToTable /\ EveryHostResolves) => OneServerPerTableCode

\* C5 amended: the best-effort pass resolves exactly the hosts of the table
\* codes no resolved archive host matched; when the archive hosts map to
\* pairwise distinct table codes and every host resolves, the list has
\* exactly one Server per table code.
C5_TableComplement ==
    /\ Pass2IsComplement
    /\ (Succeeded /\ HostsMapToTable /\ HostsOfDistinctCodes /\ EveryHostResolves) =>
          OneServerPerTableCode

C5_Witness ==
    /\ Succeeded
    /\ HostsMapToTable /\ HostsOfDistinctCodes /\ EveryHostResolves
    /\ hosts = <<CodeInTable \o Suffix>>
    /\ matched = {CodeInTable}
    /\ Len(remainingServers) = Cardinality(TableCodes) - 1
    /\ Len(servers) = Cardinality(TableCodes)

\* C6: no hostname occurs twice in the list handed to the strict pass.
C6_HostsDeduplicated ==
    \A i, j \in 1..Len(hosts) : i # j => hosts[i] # hosts[j]

\* C7: a resolved archive host whose code is not in the table copy gets a
\* Server named by the bare code and a warning naming the code, leaves the
\* table copy as it is, and the run returns that Server and warning without
\* an error.
C7_UnmappedFallback ==
    /\ [][\A host \in todoHosts :
            (/\ pc = "reconcile"
             /\ todoHosts' = todoHosts \ {host}
             /\ hostToIPs[host] # <<>>
             /\ TrimSuffix(host, Suffix) \notin DOMAIN mapping) =>
                /\ servers' = Append(servers,
                      [Region |-> TrimSuffix(host, Suffix),
                       IPs |-> uniqueSortedIPs(hostToIPs[host])])
                /\ warnings' = Append(warnings,
                      Warning("unmapped", TrimSuffix(host, Suffix)))
                /\ mapping' = mapping
                /\ pc' = "reconcile"]_vars
    /\ []((pc = "returned" /\ "reconcile" \in phases) =>
            /\ err = ""
            /\ \A host \in unmapped :
                 /\ \E i \in 1..Len(servers) :
                       servers[i].Region = TrimSuffix(host, Suffix)
                 /\ Warning("unmapped", TrimSuffix(host, Suffix)) \in Range(warnings))

C7_Witness ==
    /\ Succeeded
    /\ CodeNotInTable \o Suffix \in unmapped
    /\ \E i \in 1..Len(servers) : servers[i].Region = CodeNotInTable

\* C8: the returned list is sorted non-decreasing by region name and is a
\* permutation of the archive-pass Servers followed by the best-effort-pass
\* Servers.
C8_SortedPermutation ==
    /\ [][(pc = "build" /\ pc' = "returned") =>
            /\ SortedByRegion(servers')
            /\ IsPermutation(servers', servers \o remainingServers)]_vars
    /\ [](Succeeded => SortedByRegion(servers))

C8_Witness ==
    /\ Succeeded
    /\ Len(servers) > Len(remainingServers)
    /\ remainingServers # NoServers
    /\ SubSeq(servers, Len(servers) - Len(remainingServers) + 1, Len(servers))
          # remainingServers

\* C9: every run starts from the fully populated table, whatever earlier
\* runs deleted from their copies, and the runs of one archive and one DNS
\* that succeed (uncancelled) all return the same Server list.
C9_RunsIndependent ==
    /\ (pc = "extract" /\ hosts = <<>> /\ warnings = <<>>) =>
          mapping = surfsharkSubdomainToRegion
    /\ Cardinality(results) <= 1

\* C10: a run that returns an error leaves the stored list and timestamp as
\* they were and makes updateSurfshark return an error; the stored list and
\* timestamp only change, together, at the return of a run without error.
C10_StoreOnlyOnSuccess ==
    [][/\ (pc = "returned" /\ pc' = "idle" /\ err # "") =>
              (stored' = stored /\ lastErr' # <<>>)
       /\ (stored' # stored) =>
              /\ pc = "returned" /\ err = "" /\ lastErr' = <<>>
              /\ stored' = [Timestamp |-> clock, Servers |-> servers]]_vars

C10_Witness ==
    /\ pc = "idle"
    /\ lastErr # <<>>
    /\ stored.Timestamp > 0
    /\ stored.Timestamp < clock

====
